---- MODULE Spec2Model ----
(***************************************************************************)
(* A model of the baby-names dataset (names_model.py) and of the pure      *)
(* operations on it (names_operations.py).                                 *)
(*                                                                         *)
(* A Python str is a sequence of one-character strings, so that lower(),   *)
(* strip(), replace(), float() and the code-point ordering used by         *)
(* sorted() are computed rather than assumed.  A float holding a whole     *)
(* number is an integer; a quotient of two floats is a fraction            *)
(* [num, den].  An Optional value is None (the empty tuple) or Some(x)     *)
(* (a 1-tuple).  A Python dict is the sequence of its <<key, value>>       *)
(* items in insertion order.  A source file is the DataFrame that          *)
(* pd.read_csv(skiprows=4, header=0, dtype=str) yields from it: the column *)
(* labels and the rows of cells, each cell a str or NaN.                   *)
(***************************************************************************)
EXTENDS Integers, Sequences, FiniteSets, TLC

VARIABLES
    boys_file,      \* the DataFrame read from BOYS_FILE
    girls_file,     \* the DataFrame read from GIRLS_FILE
    phase,          \* "start", "loaded" (NamesDataset.load returned) or "failed" (it raised)
    names,          \* NamesDataset._names
    yearly_loaded,  \* NamesDataset._yearly_loaded
    ranks_cache,    \* NamesDataset._ranks_cache
    call,           \* the last operation called, with its arguments
    ret             \* what that operation returned

vars == <<boys_file, girls_file, phase, names, yearly_loaded, ranks_cache, call, ret>>

-----------------------------------------------------------------------------
(* Bounds of the model *)

\* rows of the two source files taken together
MaxRows == 2

\* the same, where the operations of names_operations.py are applied
MaxOpsRows == 3

-----------------------------------------------------------------------------
(* Python values *)

None == <<>>
Some(x) == <<x>>
IsNone(o) == o = <<>>
Val(o) == o[1]

\* the missing value pandas puts where a cell is empty
NaN == <<"NaN">>
isna(v) == v = NaN

Range(s) == {s[i] : i \in DOMAIN s}

RECURSIVE SumSeq(_)
SumSeq(s) == IF s = <<>> THEN 0 ELSE s[1] + SumSeq(Tail(s))

\* the characters the model's strings are made of, with their code points
CodePoint(c) ==
    CASE c = " " -> 32 [] c = "\"" -> 34 [] c = "," -> 44 [] c = "-" -> 45
      [] c = "0" -> 48 [] c = "1" -> 49 [] c = "2" -> 50 [] c = "3" -> 51
      [] c = "4" -> 52 [] c = "5" -> 53 [] c = "6" -> 54 [] c = "7" -> 55
      [] c = "8" -> 56 [] c = "9" -> 57
      [] c = "A" -> 65 [] c = "B" -> 66 [] c = "L" -> 76 [] c = "O" -> 79
      [] c = "S" -> 83 [] c = "X" -> 88
      [] c = "[" -> 91 [] c = "]" -> 93
      [] c = "a" -> 97 [] c = "b" -> 98 [] c = "l" -> 108 [] c = "o" -> 111
      [] c = "s" -> 115 [] c = "x" -> 120

Chars ==
    {" ", "\"", ",", "-", "0", "1", "2", "3", "4", "5", "6", "7", "8", "9",
     "A", "B", "L", "O", "S", "X", "[", "]", "a", "b", "l", "o", "s", "x"}

\* str.lower(), one character
LowerChar(c) ==
    IF CodePoint(c) >= 65 /\ CodePoint(c) <= 90
    THEN CHOOSE d \in Chars : CodePoint(d) = CodePoint(c) + 32
    ELSE c

\* str.lower()
lower(s) == [i \in DOMAIN s |-> LowerChar(s[i])]

\* s < t for two Python strs: by code point, a proper prefix first
StrLess(s, t) ==
    \E i \in 1..(Len(t)) :
        /\ \A j \in 1..(i - 1) : j <= Len(s) /\ s[j] = t[j]
        /\ \/ i = Len(s) + 1
           \/ i <= Len(s) /\ CodePoint(s[i]) < CodePoint(t[i])

\* sorted(S) for a set of strs
RECURSIVE sorted_strs(_)
sorted_strs(S) ==
    IF S = {} THEN <<>>
    ELSE LET m == CHOOSE x \in S : \A y \in S \ {x} : StrLess(x, y)
         IN  <<m>> \o sorted_strs(S \ {m})

\* sorted(S) for a set of ints
RECURSIVE sorted_ints(_)
sorted_ints(S) ==
    IF S = {} THEN <<>>
    ELSE LET m == CHOOSE x \in S : \A y \in S : x <= y
         IN  <<m>> \o sorted_ints(S \ {m})

\* str.strip()
RECURSIVE lstrip(_)
lstrip(s) == IF s # <<>> /\ s[1] = " " THEN lstrip(Tail(s)) ELSE s

RECURSIVE rstrip(_)
rstrip(s) ==
    IF s # <<>> /\ s[Len(s)] = " " THEN rstrip(SubSeq(s, 1, Len(s) - 1)) ELSE s

strip(s) == rstrip(lstrip(s))

\* str.replace(c, "")
remove_char(s, c) == SelectSeq(s, LAMBDA x : x # c)

IsDigit(c) == CodePoint(c) >= 48 /\ CodePoint(c) <= 57

RECURSIVE DigitsValue(_)
DigitsValue(s) ==
    IF s = <<>> THEN 0
    ELSE 10 * DigitsValue(SubSeq(s, 1, Len(s) - 1)) + (CodePoint(s[Len(s)]) - 48)

\* float(s): Some(value), or None where Python raises ValueError.  The strs
\* of the model are signed whole numbers or not numbers at all.
float(s) ==
    LET t == strip(s)
        signed == t # <<>> /\ t[1] \in {"-", "+"}
        digits == IF signed THEN Tail(t) ELSE t
    IN  IF digits # <<>> /\ \A i \in DOMAIN digits : IsDigit(digits[i])
        THEN Some(IF signed /\ t[1] = "-" THEN 0 - DigitsValue(digits)
                  ELSE DigitsValue(digits))
        ELSE None

\* the tokens parse_count reads as "no data"
NoDataTokens == {<<"[", "x", "]">>, <<"S">>, <<>>}

parse_count(value) ==
    IF isna(value) THEN None
    ELSE LET v == strip(value)
         IN  IF v \in NoDataTokens THEN None
             ELSE float(remove_char(remove_char(v, "\""), ","))

-----------------------------------------------------------------------------
(* Python dicts, in insertion order *)

DictKeys(d) == {d[i][1] : i \in DOMAIN d}

DictHas(d, k) == \E i \in DOMAIN d : d[i][1] = k

\* d[k]
DictAt(d, k) == d[CHOOSE i \in DOMAIN d : d[i][1] = k][2]

\* d.get(k, default)
DictGet(d, k, default) == IF DictHas(d, k) THEN DictAt(d, k) ELSE default

\* d[k] = v: a new key goes last, an old key keeps its place
DictSet(d, k, v) ==
    IF DictHas(d, k)
    THEN [i \in DOMAIN d |-> IF d[i][1] = k THEN <<k, v>> ELSE d[i]]
    ELSE Append(d, <<k, v>>)

\* dict(pairs)
RECURSIVE DictOf(_)
DictOf(pairs) ==
    IF pairs = <<>> THEN <<>>
    ELSE LET n == Len(pairs)
         IN  DictSet(DictOf(SubSeq(pairs, 1, n - 1)), pairs[n][1], pairs[n][2])

\* list(d.values())
DictValues(d) == [i \in DOMAIN d |-> d[i][2]]

-----------------------------------------------------------------------------
(* The data model *)

\* YearlyCount(year, count)
YearlyCount(year, count) == [year |-> year, count |-> count]

\* NameData(name, boys_total, girls_total): the yearly fields default to None
NameData(name, boys_total, girls_total) ==
    [name |-> name, boys_total |-> boys_total, girls_total |-> girls_total,
     boys_yearly |-> None, girls_yearly |-> None]

\* NameData.total_count
total_count(nd) == nd.boys_total + nd.girls_total

\* a quotient of two floats
Frac(n, d) == [num |-> n, den |-> d]

\* NameData.gender_score
gender_score(nd) ==
    IF total_count(nd) = 0 THEN Frac(0, 1)
    ELSE Frac(nd.girls_total - nd.boys_total, total_count(nd))

\* NameData.has_yearly_data
has_yearly_data(nd) == ~IsNone(nd.boys_yearly) \/ ~IsNone(nd.girls_yearly)

\* Ranks(overall, boys, girls)
Ranks(overall, boys, girls) == [overall |-> overall, boys |-> boys, girls |-> girls]

-----------------------------------------------------------------------------
(* The source tables *)

\* '"Count" in col' for the column labels of the model
HasCount(label) == label \in {"1996 Count", "1997 Count"}

\* col.replace(" Count", "") as an int
YearOfLabel(label) == IF label \in {"1996 Count", "1996"} THEN 1996 ELSE 1997

\* pd.read_csv raises EmptyDataError on a file with no columns to parse
read_csv_raises(df) == df.columns = <<>>

\* count_cols: the positions of the columns whose label contains "Count"
RECURSIVE CountColsFrom(_, _)
CountColsFrom(df, i) ==
    IF i > Len(df.columns) THEN <<>>
    ELSE (IF HasCount(df.columns[i]) THEN <<i>> ELSE <<>>) \o CountColsFrom(df, i + 1)

count_cols(df) == CountColsFrom(df, 1)

\* the sum, skipping None, of the parsed cells of one row
RECURSIVE SkipNaSum(_)
SkipNaSum(cells) ==
    IF cells = <<>> THEN 0
    ELSE (IF IsNone(parse_count(cells[1])) THEN 0 ELSE Val(parse_count(cells[1])))
         + SkipNaSum(Tail(cells))

\* NamesDataset._load_aggregated: the rows [name, total_count], one per source
\* row whose name (the first column) is not NaN
_load_aggregated(df) ==
    LET cols == count_cols(df)
        agg(row) == [name |-> row[1],
                     total_count |-> SkipNaSum([j \in DOMAIN cols |-> row[cols[j]]])]
        all == [i \in DOMAIN df.rows |-> agg(df.rows[i])]
    IN  SelectSeq(all, LAMBDA r : ~isna(r.name))

\* dict(zip(df["name"], df["total_count"]))
totals_dict(agg) == DictOf([i \in DOMAIN agg |-> <<agg[i].name, agg[i].total_count>>])

\* the loop keeping the entity a key already has, so that the casing sorting
\* first wins (C7 as amended fails with it)
RECURSIVE load_loop_keep_first(_, _, _)
load_loop_keep_first(ordered, boys_dict, girls_dict) ==
    IF ordered = <<>> THEN <<>>
    ELSE LET n == Len(ordered)
             name == ordered[n]
             before == load_loop_keep_first(SubSeq(ordered, 1, n - 1), boys_dict, girls_dict)
         IN  IF DictHas(before, lower(name)) THEN before
             ELSE DictSet(before, lower(name),
                          NameData(name, DictGet(boys_dict, name, 0),
                                   DictGet(girls_dict, name, 0)))

\* the loop of NamesDataset.load over sorted(all_names)
RECURSIVE load_loop(_, _, _)
load_loop(ordered, boys_dict, girls_dict) ==
    IF ordered = <<>> THEN <<>>
    ELSE LET n == Len(ordered)
             name == ordered[n]
         IN  DictSet(load_loop(SubSeq(ordered, 1, n - 1), boys_dict, girls_dict),
                     lower(name),
                     NameData(name, DictGet(boys_dict, name, 0), DictGet(girls_dict, name, 0)))

\* NamesDataset.load: the _names of the dataset it returns
load(boys_df, girls_df) ==
    LET boys_dict == totals_dict(_load_aggregated(boys_df))
        girls_dict == totals_dict(_load_aggregated(girls_df))
        all_names == DictKeys(boys_dict) \cup DictKeys(girls_dict)
    IN  load_loop(sorted_strs(all_names), boys_dict, girls_dict)

-----------------------------------------------------------------------------
(* Yearly (long-form) data *)

\* result.rename(columns={name_col: "name"}) renames every column carrying the
\* first column's label; when that label is also a count column, result["name"]
\* is a DataFrame, which has no .str, and _load_yearly_raw raises
yearly_raw_raises(df) ==
    read_csv_raises(df) \/ HasCount(df.columns[1])

\* the rows kept by 'result["name"].notna() & (result["name"].str.strip() != "")'
named_rows(df) ==
    SelectSeq(df.rows, LAMBDA row : ~isna(row[1]) /\ strip(row[1]) # <<>>)

\* result.melt(...): one row per count column and source row, column by column
RECURSIVE melt(_, _)
melt(rows, cols) ==
    IF cols = <<>> THEN <<>>
    ELSE [i \in DOMAIN rows |-> [name |-> rows[i][1], col |-> cols[1],
                                 count |-> parse_count(rows[i][cols[1]])]]
         \o melt(rows, Tail(cols))

\* NamesDataset._load_yearly_raw: the rows [name, name_lower, year, count]
\* whose count is not None
_load_yearly_raw(df) ==
    LET melted == melt(named_rows(df), count_cols(df))
        kept == SelectSeq(melted, LAMBDA r : ~IsNone(r.count))
    IN  [i \in DOMAIN kept |->
            [name |-> kept[i].name, name_lower |-> lower(kept[i].name),
             year |-> YearOfLabel(df.columns[kept[i].col]), count |-> Val(kept[i].count)]]

\* df.sort_values("name_lower", ignore_index=True).  The default kind is
\* quicksort, which is not stable: rows with equal name_lower may come out in
\* any order.  The set of the orders (sequences of row positions) it may yield.
RECURSIVE SortOrders(_, _)
SortOrders(df, left) ==
    IF left = {} THEN {<<>>}
    ELSE LET least == {i \in left : \A j \in left :
                            ~StrLess(df[j].name_lower, df[i].name_lower)}
         IN  UNION {{<<i>> \o rest : rest \in SortOrders(df, left \ {i})} : i \in least}

sort_values(df) ==
    {[k \in DOMAIN order |-> df[order[k]]] : order \in SortOrders(df, DOMAIN df)}

\* NamesDataset._build_yearly_dict: each run of consecutive rows with the same
\* name_lower becomes the list stored under that name
RECURSIVE _build_yearly_dict(_)
_build_yearly_dict(df) ==
    IF df = <<>> THEN <<>>
    ELSE LET n == Len(df)
             before == _build_yearly_dict(SubSeq(df, 1, n - 1))
             yc == YearlyCount(df[n].year, df[n].count)
         IN  IF n > 1 /\ df[n - 1].name_lower = df[n].name_lower
             THEN DictSet(before, df[n].name_lower,
                          Append(DictAt(before, df[n].name_lower), yc))
             ELSE DictSet(before, df[n].name_lower, <<yc>>)

\* the two assignments of the loop crossed: each sex's rows written into the
\* other sex's field (C12 fails with it)
populate_crossed(d, boys_yearly_dict, girls_yearly_dict) ==
    [i \in DOMAIN d |->
        <<d[i][1],
          [d[i][2] EXCEPT
              !.boys_yearly = IF DictHas(girls_yearly_dict, d[i][1])
                              THEN Some(DictAt(girls_yearly_dict, d[i][1])) ELSE @,
              !.girls_yearly = IF DictHas(boys_yearly_dict, d[i][1])
                               THEN Some(DictAt(boys_yearly_dict, d[i][1])) ELSE @]>>]

\* the loop of load_yearly_data over self._names.items()
populate(d, boys_yearly_dict, girls_yearly_dict) ==
    [i \in DOMAIN d |->
        <<d[i][1],
          [d[i][2] EXCEPT
              !.boys_yearly = IF DictHas(boys_yearly_dict, d[i][1])
                              THEN Some(DictAt(boys_yearly_dict, d[i][1])) ELSE @,
              !.girls_yearly = IF DictHas(girls_yearly_dict, d[i][1])
                               THEN Some(DictAt(girls_yearly_dict, d[i][1])) ELSE @]>>]

-----------------------------------------------------------------------------
(* Ranks *)

\* sorted(xs, key=..., reverse=True), given the key of each element: stable,
\* so elements with equal keys keep their order
RECURSIVE sorted_desc(_, _)
sorted_desc(xs, keys) ==
    IF xs = <<>> THEN <<>>
    ELSE LET n == Len(xs)
             before == sorted_desc(SubSeq(xs, 1, n - 1), SubSeq(keys, 1, n - 1))
             \* the last of xs goes after every element that is not smaller
             at == Cardinality({i \in 1..(n - 1) : keys[i] >= keys[n]})
         IN  SubSeq(before, 1, at) \o <<xs[n]>> \o SubSeq(before, at + 1, n - 1)

by_total(all_names) ==
    sorted_desc(all_names, [i \in DOMAIN all_names |-> total_count(all_names[i])])

by_boys(all_names) ==
    sorted_desc(all_names, [i \in DOMAIN all_names |-> all_names[i].boys_total])

by_girls(all_names) ==
    sorted_desc(all_names, [i \in DOMAIN all_names |-> all_names[i].girls_total])

\* ranks counted from 0 (C2 fails with them)
rank_dict_from_zero(by_x) == DictOf([i \in DOMAIN by_x |-> <<by_x[i].name, i - 1>>])

\* {name.name: rank + 1 for rank, name in enumerate(by_x)}
rank_dict(by_x) == DictOf([i \in DOMAIN by_x |-> <<by_x[i].name, (i - 1) + 1>>])

\* NamesDataset._compute_ranks: the new _ranks_cache
_compute_ranks(d) ==
    LET all_names == DictValues(d)
        overall_ranks == rank_dict(by_total(all_names))
        boys_ranks == rank_dict(by_boys(all_names))
        girls_ranks == rank_dict(by_girls(all_names))
    IN  DictOf([i \in DOMAIN all_names |->
                  <<all_names[i].name,
                    Ranks(DictAt(overall_ranks, all_names[i].name),
                          DictAt(boys_ranks, all_names[i].name),
                          DictAt(girls_ranks, all_names[i].name))>>])

\* the cut taken for top_n >= 0, so that top_n = 0 yields nothing (C3 fails
\* with it)
truncate_from_zero(all_names, top_n) ==
    IF top_n >= 0
    THEN SubSeq(all_names, 1, IF top_n < Len(all_names) THEN top_n ELSE Len(all_names))
    ELSE all_names

\* all_names[:top_n] if top_n > 0
truncate(all_names, top_n) ==
    IF top_n > 0
    THEN SubSeq(all_names, 1, IF top_n < Len(all_names) THEN top_n ELSE Len(all_names))
    ELSE all_names

\* NamesDataset.get_ranked_names, given the cache as it is after the
\* "compute ranks if not cached" step
get_ranked_names(d, cache, top_n) ==
    LET all_names == truncate(by_total(DictValues(d)), top_n)
    IN  [i \in DOMAIN all_names |-> <<all_names[i], DictAt(cache, all_names[i].name)>>]

\* NamesDataset.get_name: None, or Some(the NameData)
get_name(d, name) ==
    IF DictHas(d, lower(name)) THEN Some(DictAt(d, lower(name))) ELSE None

-----------------------------------------------------------------------------
(* names_operations.py *)

\* {yc.year: yc.count for yc in yearly}
by_year(yearly) == DictOf([i \in DOMAIN yearly |-> <<yearly[i].year, yearly[i].count>>])

\* 'yearly or []'
or_empty(yearly) == IF IsNone(yearly) THEN <<>> ELSE Val(yearly)

\* 'not yearly': None and the empty list are both falsy
falsy(yearly) == IsNone(yearly) \/ Val(yearly) = <<>>

\* get_time_series: a list of <<year, count>>
get_time_series(nd, gender) ==
    IF ~has_yearly_data(nd) THEN <<>>
    ELSE IF gender = "boys"
    THEN LET yearly == or_empty(nd.boys_yearly)
         IN  [i \in DOMAIN yearly |-> <<yearly[i].year, yearly[i].count>>]
    ELSE IF gender = "girls"
    THEN LET yearly == or_empty(nd.girls_yearly)
         IN  [i \in DOMAIN yearly |-> <<yearly[i].year, yearly[i].count>>]
    ELSE LET boys_by_year == by_year(or_empty(nd.boys_yearly))
             girls_by_year == by_year(or_empty(nd.girls_yearly))
             all_years == sorted_ints(DictKeys(boys_by_year) \cup DictKeys(girls_by_year))
         IN  [i \in DOMAIN all_years |->
                <<all_years[i], DictGet(boys_by_year, all_years[i], 0)
                                + DictGet(girls_by_year, all_years[i], 0)>>]

\* calculate_yearly_gender_scores: a list of <<year, gender_score>>
calculate_yearly_gender_scores(nd) ==
    IF falsy(nd.boys_yearly) \/ falsy(nd.girls_yearly) THEN <<>>
    ELSE LET boys_by_year == by_year(Val(nd.boys_yearly))
             girls_by_year == by_year(Val(nd.girls_yearly))
             all_years == sorted_ints(DictKeys(boys_by_year) \cup DictKeys(girls_by_year))
             score(year) ==
                 LET boys_count == DictGet(boys_by_year, year, 0)
                     girls_count == DictGet(girls_by_year, year, 0)
                     total == boys_count + girls_count
                 IN  IF total > 0 THEN <<<<year, Frac(girls_count - boys_count, total)>>>>
                     ELSE <<>>
             RECURSIVE loop(_)
             loop(years) == IF years = <<>> THEN <<>>
                            ELSE score(years[1]) \o loop(Tail(years))
         IN  loop(all_years)

-----------------------------------------------------------------------------
(* The inputs of the model *)

Al == <<"A", "l">>
AL == <<"A", "L">>
Bo == <<"B", "o">>

\* the cells of one row under "1996 Count" and "1997 Count"
MinusOneZero == <<<<"-", "1">>, <<"0">>>>
OneS == <<<<"1">>, <<"S">>>>
SuppressedThousand == <<<<"[", "x", "]">>, <<"1", ",", "0", "0", "0">>>>
EmptyS == <<NaN, <<"S">>>>

CellPairs == {MinusOneZero, OneS, SuppressedThousand, EmptyS}

\* the rows of a well-formed source table: a name and two cells
Rows ==
    {<<Al>> \o p : p \in CellPairs}
    \cup {<<Bo>> \o p : p \in {MinusOneZero, OneS}}
    \cup {<<AL>> \o OneS, <<NaN>> \o OneS}

\* fewer of them, where the operations of names_operations.py are applied
OpsRows ==
    {<<Al>> \o p : p \in {MinusOneZero, OneS, SuppressedThousand}}
    \cup {<<AL>> \o OneS, <<Bo>> \o OneS}

RECURSIVE RowSeqs(_, _)
RowSeqs(rows, n) ==
    IF n = 0 THEN {<<>>}
    ELSE {Append(rs, r) : rs \in RowSeqs(rows, n - 1), r \in rows}

Header == <<"Name", "1996 Count", "1997 Count">>

\* the well-formed tables of n rows
TablesOf(rows, n) == {[columns |-> Header, rows |-> rs] : rs \in RowSeqs(rows, n)}

Tables(n) == TablesOf(Rows, n)

\* the pairs of well-formed tables of at most max rows in all
TablePairs(rows, max) ==
    UNION {TablesOf(rows, ij[1]) \X TablesOf(rows, ij[2]) :
             ij \in {ij \in (0..max) \X (0..max) : ij[1] + ij[2] <= max}}

\* structurally malformed tables: no column at all; no count column; no name
\* column
Malformed ==
    {[columns |-> <<>>, rows |-> <<>>]}
    \cup {[columns |-> <<"Name", "1996", "1997">>, rows |-> <<<<n>> \o OneS>>] : n \in {Al, AL, Bo}}
    \cup {[columns |-> <<"1996 Count", "1997 Count">>, rows |-> <<p>>] : p \in CellPairs}

\* the two source files: well-formed tables of at most MaxRows rows in all,
\* or a malformed table beside a well-formed one of at most one row
Inputs ==
    TablePairs(Rows, MaxRows)
    \cup (Malformed \X (Tables(0) \cup Tables(1)))
    \cup ((Tables(0) \cup Tables(1)) \X Malformed)

\* the two source files where the operations of names_operations.py are applied
OpsInputs == TablePairs(OpsRows, MaxOpsRows)

\* the files a caller may pass to load_yearly_data as (boys_file, girls_file)
SourceChoices == {<<"boys", "girls">>, <<"girls", "boys">>}

File(which) == IF which = "boys" THEN boys_file ELSE girls_file

\* the top_n a caller may pass to get_ranked_names
TopNs == (0 - 1)..MaxRows

\* the names a caller may look up
Lookups == {Al, AL, <<"a", "l">>, Bo, <<"X">>}

Genders == {"boys", "girls", "combined"}

-----------------------------------------------------------------------------
(* The state machine *)

NoCall == [op |-> "", args |-> <<>>]
Returned(value) == [outcome |-> "returned", value |-> value]
Raised == [outcome |-> "raised", value |-> <<>>]

\* before 'dataset = NamesDataset.load(BOYS_FILE, GIRLS_FILE)', with the two
\* source files drawn from inputs
InitWith(inputs) ==
    /\ \E files \in inputs : boys_file = files[1] /\ girls_file = files[2]
    /\ phase = "start"
    /\ names = <<>>
    /\ yearly_loaded = FALSE
    /\ ranks_cache = None
    /\ call = NoCall
    /\ ret = Returned(<<>>)

Init == InitWith(Inputs)

InitOps == InitWith(OpsInputs)

\* dataset = NamesDataset.load(BOYS_FILE, GIRLS_FILE)
Load ==
    /\ phase = "start"
    /\ call' = [op |-> "load", args |-> <<"boys", "girls">>]
    /\ IF read_csv_raises(boys_file) \/ read_csv_raises(girls_file)
       THEN /\ phase' = "failed"
            /\ ret' = Raised
            /\ UNCHANGED names
       ELSE /\ phase' = "loaded"
            /\ ret' = Returned(<<>>)
            /\ names' = load(boys_file, girls_file)
    /\ UNCHANGED <<boys_file, girls_file, yearly_loaded, ranks_cache>>

\* the guard left out: every call loads again (C1 fails without the guard)
never_loaded(loaded) == FALSE

\* 'if self._yearly_loaded: return'
already_loaded(loaded) == loaded

\* dataset.load_yearly_data(boys_file, girls_file)
LoadYearlyData(src) ==
    /\ phase = "loaded"
    /\ call' = [op |-> "load_yearly_data", args |-> src]
    /\ IF already_loaded(yearly_loaded)
       THEN /\ ret' = [outcome |-> "returned early", value |-> <<>>]
            /\ UNCHANGED <<names, yearly_loaded>>
       ELSE IF yearly_raw_raises(File(src[1])) \/ yearly_raw_raises(File(src[2]))
       THEN /\ ret' = Raised
            /\ UNCHANGED <<names, yearly_loaded>>
       ELSE \E boys_yearly_df \in sort_values(_load_yearly_raw(File(src[1]))),
               girls_yearly_df \in sort_values(_load_yearly_raw(File(src[2]))) :
                /\ names' = populate(names, _build_yearly_dict(boys_yearly_df),
                                     _build_yearly_dict(girls_yearly_df))
                /\ yearly_loaded' = TRUE
                /\ ret' = Returned(<<>>)
    /\ UNCHANGED <<boys_file, girls_file, phase, ranks_cache>>

\* dataset.get_ranked_names(top_n)
GetRankedNames(top_n) ==
    /\ phase = "loaded"
    /\ call' = [op |-> "get_ranked_names", args |-> <<top_n>>]
    /\ ranks_cache' = IF IsNone(ranks_cache) THEN Some(_compute_ranks(names))
                      ELSE ranks_cache
    /\ ret' = Returned(get_ranked_names(names, Val(ranks_cache'), top_n))
    /\ UNCHANGED <<boys_file, girls_file, phase, names, yearly_loaded>>

\* dataset.get_name(name)
GetName(name) ==
    /\ phase = "loaded"
    /\ call' = [op |-> "get_name", args |-> <<name>>]
    /\ ret' = Returned(get_name(names, name))
    /\ UNCHANGED <<boys_file, girls_file, phase, names, yearly_loaded, ranks_cache>>

\* get_time_series(name_data, gender) on an entity of the dataset
GetTimeSeries(key, gender) ==
    /\ phase = "loaded"
    /\ DictHas(names, key)
    /\ call' = [op |-> "get_time_series", args |-> <<key, gender>>]
    /\ ret' = Returned(get_time_series(DictAt(names, key), gender))
    /\ UNCHANGED <<boys_file, girls_file, phase, names, yearly_loaded, ranks_cache>>

\* calculate_yearly_gender_scores(name_data) on an entity of the dataset
CalculateYearlyGenderScores(key) ==
    /\ phase = "loaded"
    /\ DictHas(names, key)
    /\ call' = [op |-> "calculate_yearly_gender_scores", args |-> <<key>>]
    /\ ret' = Returned(calculate_yearly_gender_scores(DictAt(names, key)))
    /\ UNCHANGED <<boys_file, girls_file, phase, names, yearly_loaded, ranks_cache>>

Next ==
    \/ Load
    \/ \E src \in SourceChoices : LoadYearlyData(src)
    \/ \E top_n \in TopNs : GetRankedNames(top_n)

\* the dataset: load, the lazy load of the yearly data, the ranked listing
Spec == Init /\ [][Next]_vars

NextLookup ==
    \/ Load
    \/ \E name \in Lookups : GetName(name)

\* load and lookup
SpecLookup == Init /\ [][NextLookup]_vars

NextOps ==
    \/ Load
    \/ \E src \in SourceChoices : LoadYearlyData(src)
    \/ \E key \in DictKeys(names), gender \in Genders : GetTimeSeries(key, gender)
    \/ \E key \in DictKeys(names) : CalculateYearlyGenderScores(key)

\* the dataset and the operations of names_operations.py on its entities
SpecOps == InitOps /\ [][NextOps]_vars

-----------------------------------------------------------------------------
(* What the claims speak of *)

Entities == DictValues(names)

Min(a, b) == IF a < b THEN a ELSE b

\* the sum of the counts of a yearly sequence
CountSum(yearly) == SumSeq([i \in DOMAIN yearly |-> yearly[i].count])

\* the years of a list of <<year, value>>
YearsOf(series) == {series[i][1] : i \in DOMAIN series}

\* the value a list of <<year, count>> holds for a year: the sum of its
\* entries for that year, 0 when it has none
ValueFor(series, year) ==
    SumSeq([i \in DOMAIN series |-> IF series[i][1] = year THEN series[i][2] ELSE 0])

StrictlyAscending(series) ==
    \A i \in 1..(Len(series) - 1) : series[i][1] < series[i + 1][1]

\* a = b for two quotients
FracEq(a, b) == a.num * b.den = b.num * a.den

\* -1.0 <= q <= 1.0 for a quotient q
InUnitRange(q) ==
    IF q.den > 0 THEN (0 - q.den) <= q.num /\ q.num <= q.den
    ELSE q.den <= q.num /\ q.num <= (0 - q.den)

\* the names of a source table, in row order, NaN left out
SourceNames(df) ==
    IF df.columns = <<>> THEN <<>>
    ELSE SelectSeq([i \in DOMAIN df.rows |-> df.rows[i][1]], LAMBDA n : ~isna(n))

\* the skip-nulls sum of the count columns over every row of df carrying name
NameTotal(df, name) ==
    LET cols == count_cols(df)
    IN  SumSeq([i \in DOMAIN df.rows |->
                  IF df.rows[i][1] = name
                  THEN SkipNaSum([j \in DOMAIN cols |-> df.rows[i][cols[j]]])
                  ELSE 0])

\* a table missing the expected name column, or with no per-year count column
IsMalformed(df) ==
    \/ df.columns = <<>>
    \/ df.columns[1] # "Name"
    \/ count_cols(df) = <<>>

RankIn(ranks, dim) ==
    CASE dim = "overall" -> ranks.overall
      [] dim = "boys" -> ranks.boys
      [] dim = "girls" -> ranks.girls

CountIn(nd, dim) ==
    CASE dim = "overall" -> total_count(nd)
      [] dim = "boys" -> nd.boys_total
      [] dim = "girls" -> nd.girls_total

Dimensions == {"overall", "boys", "girls"}

-----------------------------------------------------------------------------
(* The claims *)

\* C1: load_yearly_data is idempotent: called on a dataset whose yearly data
\* is loaded, whatever the sources passed, it leaves the entities (totals and
\* yearly sequences), the loaded flag and the rank cache as they were.
C1_LoadYearlyDataIdempotent ==
    [][(yearly_loaded /\ call'.op = "load_yearly_data")
         => (names' = names /\ yearly_loaded' /\ ranks_cache' = ranks_cache)]_vars

\* a second call has returned, and it was passed the files the other way
\* round: an entity holds boys' yearly data that the file passed for the boys
\* in that call has no row for
C1_Witness ==
    /\ yearly_loaded
    /\ call.op = "load_yearly_data"
    /\ call.args = <<"girls", "boys">>
    /\ ret.outcome = "returned early"
    /\ \E i \in DOMAIN names :
          /\ ~IsNone(names[i][2].boys_yearly)
          /\ \A r \in Range(_load_yearly_raw(girls_file)) : r.name_lower # names[i][1]

\* C2: once the ranks are computed, each of the three rank dimensions is a
\* permutation of 1..k over the k entities (every entity ranked within 1..k,
\* no rank shared, none unused), and rank 1 goes to an entity whose count in
\* that dimension is the highest.
C2_RanksArePermutations ==
    ~IsNone(ranks_cache) =>
        LET cache == Val(ranks_cache)
            k == Len(names)
            rank(i, dim) == RankIn(DictAt(cache, Entities[i].name), dim)
        IN  /\ Len(cache) = k
            /\ \A i \in 1..k : DictHas(cache, Entities[i].name)
            /\ \A dim \in Dimensions :
                  /\ \A i \in 1..k : rank(i, dim) \in 1..k
                  /\ \A i, j \in 1..k : i # j => rank(i, dim) # rank(j, dim)
                  /\ \A v \in 1..k : \E i \in 1..k : rank(i, dim) = v
                  /\ \A i \in 1..k :
                        rank(i, dim) = 1 =>
                            \A j \in 1..k :
                                CountIn(Entities[j], dim) <= CountIn(Entities[i], dim)

\* the ranks of two entities are computed, and two dimensions order them
\* differently
C2_Witness ==
    /\ ~IsNone(ranks_cache)
    /\ Len(names) >= 2
    /\ \E i, j \in DOMAIN names :
          LET ri == DictAt(Val(ranks_cache), Entities[i].name)
              rj == DictAt(Val(ranks_cache), Entities[j].name)
          IN  ri.boys < rj.boys /\ ri.girls > rj.girls

\* C3: get_ranked_names(top_n) returns entities of the dataset in descending
\* total_count order, each paired with its cached Ranks; for top_n > 0 exactly
\* min(top_n, k) entries, the first min(top_n, k) of get_ranked_names(0); for
\* top_n <= 0 all k entities.
C3_GetRankedNames ==
    call.op = "get_ranked_names" =>
        LET top_n == call.args[1]
            out == ret.value
            k == Len(names)
            full == get_ranked_names(names, Val(ranks_cache), 0)
        IN  /\ \A i \in DOMAIN out :
                  /\ \E j \in 1..k : out[i][1] = Entities[j]
                  /\ out[i][2] = DictAt(Val(ranks_cache), out[i][1].name)
            /\ \A i \in 1..(Len(out) - 1) :
                  total_count(out[i][1]) >= total_count(out[i + 1][1])
            /\ \A i, j \in DOMAIN out : i # j => out[i][1].name # out[j][1].name
            /\ top_n > 0 =>
                  /\ Len(out) = Min(top_n, k)
                  /\ Len(full) >= Len(out)
                  /\ \A i \in DOMAIN out : out[i] = full[i]
            /\ top_n <= 0 => Len(out) = k

\* a call with 0 < top_n < k has returned: the listing is cut short
C3_Witness ==
    /\ call.op = "get_ranked_names"
    /\ call.args[1] > 0
    /\ call.args[1] < Len(names)
    /\ Len(ret.value) = call.args[1]

\* C4: for every entity of a dataset that load returned, total_count is
\* boys_total + girls_total, gender_score lies within [-1.0, 1.0], and
\* gender_score is 0.0 when both totals are 0.
C4_ScoreWithinRange ==
    phase = "loaded" =>
        \A i \in DOMAIN Entities :
            LET nd == Entities[i]
            IN  /\ total_count(nd) = nd.boys_total + nd.girls_total
                /\ InUnitRange(gender_score(nd))
                /\ (nd.boys_total = 0 /\ nd.girls_total = 0) => gender_score(nd).num = 0

\* C5: after load and then load_yearly_data on the same two files, every
\* entity with a yearly sequence loaded has boys_total equal to the sum of the
\* counts of boys_yearly and girls_total equal to that of girls_yearly.
C5_TotalsAreYearlySums ==
    (/\ call.op = "load_yearly_data"
     /\ call.args = <<"boys", "girls">>
     /\ ret.outcome = "returned") =>
        \A i \in DOMAIN Entities :
            LET nd == Entities[i]
            IN  /\ ~IsNone(nd.boys_yearly) => nd.boys_total = CountSum(Val(nd.boys_yearly))
                /\ ~IsNone(nd.girls_yearly) => nd.girls_total = CountSum(Val(nd.girls_yearly))

\* C6: the totals transform yields, for one source table, exactly one
\* (name, total) pair per distinct name, its total the skip-nulls sum of the
\* count columns over every row carrying that name; load gives each entity
\* that total for the matching sex, 0 where the sex's table has no such name.
C6_TotalsGroupedByName ==
    phase = "loaded" =>
        /\ \A df \in {boys_file, girls_file} :
              LET agg == _load_aggregated(df)
              IN  /\ Len(agg) = Cardinality(Range(SourceNames(df)))
                  /\ \A i \in DOMAIN agg :
                        agg[i].total_count = NameTotal(df, agg[i].name)
        /\ \A i \in DOMAIN Entities :
              /\ Entities[i].boys_total = NameTotal(boys_file, Entities[i].name)
              /\ Entities[i].girls_total = NameTotal(girls_file, Entities[i].name)

\* the names of the two source tables, the boys' first
AllSourceNames == SourceNames(boys_file) \o SourceNames(girls_file)

\* the casing in which a lower-cased name first occurs in the sources
FirstOccurrence(key) ==
    AllSourceNames[CHOOSE i \in DOMAIN AllSourceNames :
                      /\ lower(AllSourceNames[i]) = key
                      /\ \A j \in 1..(i - 1) : lower(AllSourceNames[j]) # key]

\* the casing of a lower-cased name that sorts last among those in the sources
LastSorted(key) ==
    CHOOSE n \in Range(AllSourceNames) :
        /\ lower(n) = key
        /\ \A m \in Range(AllSourceNames) : (lower(m) = key /\ m # n) => StrLess(m, n)

\* load keys the entities by lower-cased name, one entity per distinct
\* lower-cased source name, its display name the casing Display picks; and
\* get_name(x) returns the entity keyed lower(x), None when there is none
KeyedByLowerCase(Display(_)) ==
    /\ phase = "loaded" =>
          /\ DictKeys(names) = {lower(n) : n \in Range(AllSourceNames)}
          /\ \A i, j \in DOMAIN names : i # j => names[i][1] # names[j][1]
          /\ \A i \in DOMAIN names :
                /\ names[i][1] = lower(names[i][2].name)
                /\ names[i][2].name = Display(names[i][1])
    /\ call.op = "get_name" =>
          LET found == {i \in DOMAIN names : names[i][1] = lower(call.args[1])}
          IN  IF found = {} THEN ret.value = None
              ELSE \E i \in found : ret.value = Some(names[i][2])

\* C7 as claimed: entities are keyed by lower-cased name, one per distinct
\* lower-cased name, the display name being the casing of the first occurrence;
\* get_name(x) returns that entity for every casing of x, None otherwise.
C7_DisplayIsFirstOccurrence == KeyedByLowerCase(FirstOccurrence)

\* C7 as amended: the same, the display name being the casing that sorts last
\* (by code point) among the source names with that lower-cased form.
C7_DisplayIsLastSorted == KeyedByLowerCase(LastSorted)

\* a name occurs in two casings and the first to occur is not the one that
\* sorts last; get_name has returned the entity for yet another casing
C7_Witness ==
    /\ call.op = "get_name"
    /\ ret.value # None
    /\ call.args[1] # Val(ret.value).name
    /\ FirstOccurrence(lower(call.args[1])) # LastSorted(lower(call.args[1]))
    /\ call.args[1] # FirstOccurrence(lower(call.args[1]))

\* C8: calculate_yearly_gender_scores returns the empty list when boys_yearly
\* or girls_yearly is None; when neither is None it returns, in ascending year
\* order, exactly one (year, (girls - boys) / (boys + girls)) for each year of
\* either sequence whose combined count is > 0, a sex without the year counting
\* 0, and nothing for a year whose combined count is 0.
C8_YearlyGenderScores ==
    call.op = "calculate_yearly_gender_scores" =>
        LET nd == DictAt(names, call.args[1])
            out == ret.value
        IN  IF IsNone(nd.boys_yearly) \/ IsNone(nd.girls_yearly) THEN out = <<>>
            ELSE LET boys == [i \in DOMAIN Val(nd.boys_yearly) |->
                                <<Val(nd.boys_yearly)[i].year, Val(nd.boys_yearly)[i].count>>]
                     girls == [i \in DOMAIN Val(nd.girls_yearly) |->
                                 <<Val(nd.girls_yearly)[i].year, Val(nd.girls_yearly)[i].count>>]
                     combined(y) == ValueFor(boys, y) + ValueFor(girls, y)
                 IN  /\ StrictlyAscending(out)
                     /\ YearsOf(out) = {y \in YearsOf(boys) \cup YearsOf(girls) : combined(y) > 0}
                     /\ \A i \in DOMAIN out :
                           FracEq(out[i][2],
                                  Frac(ValueFor(girls, out[i][1]) - ValueFor(boys, out[i][1]),
                                       combined(out[i][1])))

\* C9: for an entity with yearly data, get_time_series(entity, "combined") has
\* exactly one entry per year of the boys' or the girls' time series, in
\* ascending year order, its value the sum of the values the two series hold
\* for that year (0 for a series without the year); for an entity with no
\* yearly data every time series is empty.
C9_CombinedIsSumOfSeries ==
    call.op = "get_time_series" =>
        LET nd == DictAt(names, call.args[1])
            out == ret.value
            boys == get_time_series(nd, "boys")
            girls == get_time_series(nd, "girls")
        IN  IF IsNone(nd.boys_yearly) /\ IsNone(nd.girls_yearly) THEN out = <<>>
            ELSE call.args[2] = "combined" =>
                    /\ StrictlyAscending(out)
                    /\ YearsOf(out) = YearsOf(boys) \cup YearsOf(girls)
                    /\ \A i \in DOMAIN out :
                          out[i][2] = ValueFor(boys, out[i][1]) + ValueFor(girls, out[i][1])

\* C10: load called on a structurally malformed source table (no name column,
\* or no per-year count column) fails: it returns no dataset.
C10_MalformedTableIsFatal ==
    (call.op = "load" /\ (IsMalformed(boys_file) \/ IsMalformed(girls_file)))
        => (phase = "failed" /\ ret.outcome = "raised")

\* the yearly fields of every entity, by key
YearlyFields(d) ==
    [i \in DOMAIN d |-> <<d[i][1], d[i][2].boys_yearly, d[i][2].girls_yearly>>]

\* C11: the yearly fields are populated exactly once, at the first
\* load_yearly_data: while the yearly data is not loaded, boys_yearly and
\* girls_yearly are absent for every entity; once it is loaded, neither field
\* is absent for any entity (a sex with no rows for the name gives an empty
\* sequence, not an absent one).
C11_YearlyPopulatedAtFirstLoad ==
    \A i \in DOMAIN names :
        LET nd == names[i][2]
        IN  IF yearly_loaded
            THEN ~IsNone(nd.boys_yearly) /\ ~IsNone(nd.girls_yearly)
            ELSE IsNone(nd.boys_yearly) /\ IsNone(nd.girls_yearly)

\* the rest of C11: once the yearly data is loaded, no operation changes a
\* yearly field or resets the loaded flag, and before that only
\* load_yearly_data sets them
C11_YearlyFrozenOnceLoaded ==
    [][/\ yearly_loaded => (yearly_loaded' /\ YearlyFields(names') = YearlyFields(names))
       /\ (phase = "loaded" /\ ~yearly_loaded /\ call'.op # "load_yearly_data")
             => (~yearly_loaded' /\ YearlyFields(names') = YearlyFields(names))]_vars

\* what of an entity load_yearly_data is to leave alone, by key
TotalsOf(d) ==
    [i \in DOMAIN d |-> <<d[i][1], d[i][2].name, d[i][2].boys_total, d[i][2].girls_total>>]

\* the ranked listing a get_ranked_names(top_n) would return on dataset d
\* with rank cache c: the entities (name and totals) and their Ranks
RankedListing(d, c, top_n) ==
    LET cache == IF IsNone(c) THEN _compute_ranks(d) ELSE Val(c)
        listing == get_ranked_names(d, cache, top_n)
    IN  [i \in DOMAIN listing |->
            <<listing[i][1].name, listing[i][1].boys_total, listing[i][1].girls_total,
              listing[i][2]>>]

\* how many times x occurs in the sequence xs
Occurrences(xs, x) == Cardinality({i \in DOMAIN xs : xs[i] = x})

\* the yearly field holds exactly the rows the source file has for the key:
\* absent when it has none, else the same YearlyCounts the same number of times
SourcedFrom(field, df, key) ==
    LET rows == SelectSeq(_load_yearly_raw(df), LAMBDA r : r.name_lower = key)
        ycs == [i \in DOMAIN rows |-> YearlyCount(rows[i].year, rows[i].count)]
    IN  IF rows = <<>> THEN IsNone(field)
        ELSE /\ ~IsNone(field)
             /\ Len(Val(field)) = Len(ycs)
             /\ \A yc \in Range(ycs) : Occurrences(Val(field), yc) = Occurrences(ycs, yc)

\* C12: a call of load_yearly_data only assigns yearly sequences to the
\* entities there are: the keys, and each entity's display name, boys_total
\* and girls_total stay as they were, the rank cache is untouched, so that
\* get_ranked_names returns the same entities and Ranks after the call as
\* before it; and when the call loads, boys_yearly holds the rows of the file
\* passed for the boys and girls_yearly those of the file passed for the girls.
C12_LoadYearlyDataFrame ==
    [][call'.op = "load_yearly_data" =>
          /\ TotalsOf(names') = TotalsOf(names)
          /\ ranks_cache' = ranks_cache
          /\ \A top_n \in TopNs :
                RankedListing(names', ranks_cache', top_n) = RankedListing(names, ranks_cache, top_n)
          /\ (~yearly_loaded /\ yearly_loaded') =>
                \A i \in DOMAIN names' :
                    /\ SourcedFrom(names'[i][2].boys_yearly, File(call'.args[1]), names'[i][1])
                    /\ SourcedFrom(names'[i][2].girls_yearly, File(call'.args[2]), names'[i][1])]_vars

\* load_yearly_data has loaded on a dataset whose ranks were cached before,
\* and an entity has got yearly data of both sexes, the two different
C12_Witness ==
    /\ call.op = "load_yearly_data"
    /\ ret.outcome = "returned"
    /\ yearly_loaded
    /\ ~IsNone(ranks_cache)
    /\ \E i \in DOMAIN names :
          /\ ~IsNone(names[i][2].boys_yearly)
          /\ ~IsNone(names[i][2].girls_yearly)
          /\ names[i][2].boys_yearly # names[i][2].girls_yearly

\* a yearly sequence in ascending year order (equal years side by side allowed)
AscendingByYear(yearly) ==
    \A i \in 1..(Len(yearly) - 1) : yearly[i].year <= yearly[i + 1].year

\* C13: once the yearly data is loaded, every populated boys_yearly and
\* girls_yearly sequence is in ascending year order, whatever the source
\* tables.
C13_YearlyAscendingByYear ==
    yearly_loaded =>
        \A i \in DOMAIN names :
            /\ ~IsNone(names[i][2].boys_yearly) => AscendingByYear(Val(names[i][2].boys_yearly))
            /\ ~IsNone(names[i][2].girls_yearly) => AscendingByYear(Val(names[i][2].girls_yearly))

====
